---- MODULE Spec2Model ----
(***************************************************************************)
(* bevy_ecs: the system execution core.                                    *)
(*   ptr.rs              PtrMut, the pointer handed to parameter fetches   *)
(*   system/system.rs    the System trait and check_system_change_tick     *)
(*   system/function_system.rs                                             *)
(*                       SystemMeta, SystemState, FunctionSystem           *)
(*                                                                         *)
(* A u32 is a pair <<hi, lo>> of 16-bit halves, so that every value of the *)
(* 32-bit change tick is representable and the arithmetic wraps at 2^32.   *)
(* An Option is a sequence: <<>> is None and <<x>> is Some(x).             *)
(***************************************************************************)
EXTENDS Integers, Sequences, FiniteSets, TLC

\* ------------------------------------------------------------------ bounds

\* Archetypes a world may hold.
MaxArchetypes == 2
\* Increments of a world's change tick in one behaviour.
MaxIncrements == 2
\* Direct new_archetype notifications in one behaviour.
MaxNotify == 1
\* Inputs 0..MaxInput (and 12, the documented example) are given to run.
MaxInput == 1
\* Bursts of increments of the change tick made by other systems in one
\* behaviour.
MaxAdvances == 4

\* ------------------------------------------------------------- u32 values

Half == 2 ^ 16

U32(hi, lo) == <<hi, lo>>

U32_MAX == U32(Half - 1, Half - 1)

\* u32::wrapping_add
wrapping_add(a, b) ==
    LET lo == a[2] + b[2]
        hi == a[1] + b[1] + (lo \div Half)
    IN  U32(hi % Half, lo % Half)

\* u32::wrapping_sub
wrapping_sub(a, b) ==
    LET lo == a[2] - b[2]
        borrow == IF lo < 0 THEN 1 ELSE 0
        hi == a[1] - b[1] - borrow
    IN  U32((hi + Half) % Half, (lo + Half) % Half)

\* a > b on u32
u32_gt(a, b) == a[1] > b[1] \/ (a[1] = b[1] /\ a[2] > b[2])

\* a / k on u32, for a small divisor k
u32_div(a, k) ==
    U32(a[1] \div k, ((a[1] % k) * Half + a[2]) \div k)

\* a * k on u32 for a small factor k (no overflow for the uses below)
u32_mul(a, k) ==
    LET lo == a[2] * k
        hi == a[1] * k + (lo \div Half)
    IN  U32(hi % Half, lo % Half)

\* const MAX_DELTA: u32 = (u32::MAX / 4) * 3;
MAX_DELTA == u32_mul(u32_div(U32_MAX, 4), 3)

\* Counts that do not wrap: <<hi, lo>> stands for hi * 2^16 + lo with hi
\* unbounded.  A u32 value is such a count.
wide_add(a, b) ==
    LET lo == a[2] + b[2]
    IN  <<a[1] + b[1] + (lo \div Half), lo % Half>>

wide_le(a, b) == a[1] < b[1] \/ (a[1] = b[1] /\ a[2] <= b[2])

wide_min(a, b) == IF wide_le(a, b) THEN a ELSE b

\* ------------------------------------------------- check_system_change_tick

\* A variant that clamps already at the boundary (>= for >).
check_system_change_tick_ge(last_change_tick, change_tick) ==
    LET tick_delta == wrapping_sub(change_tick, last_change_tick)
    IN  IF u32_gt(tick_delta, MAX_DELTA) \/ tick_delta = MAX_DELTA
        THEN [last_change_tick |-> wrapping_sub(change_tick, MAX_DELTA), warn |-> TRUE]
        ELSE [last_change_tick |-> last_change_tick, warn |-> FALSE]

\* A variant that clamps one tick further back than MAX_DELTA.
check_system_change_tick_short(last_change_tick, change_tick) ==
    LET tick_delta == wrapping_sub(change_tick, last_change_tick)
    IN  IF u32_gt(tick_delta, MAX_DELTA)
        THEN [ last_change_tick |-> wrapping_sub(wrapping_sub(change_tick, MAX_DELTA), U32(0, 1)),
               warn |-> TRUE ]
        ELSE [last_change_tick |-> last_change_tick, warn |-> FALSE]

\* A variant that warns about the drift and leaves the stored tick alone.
check_system_change_tick_warn_only(last_change_tick, change_tick) ==
    LET tick_delta == wrapping_sub(change_tick, last_change_tick)
    IN  [last_change_tick |-> last_change_tick, warn |-> u32_gt(tick_delta, MAX_DELTA)]

\* check_system_change_tick(&mut last_change_tick, change_tick, name): the new
\* value of *last_change_tick and whether warn! was called.
check_system_change_tick(last_change_tick, change_tick) ==
    LET tick_delta == wrapping_sub(change_tick, last_change_tick)
    IN  IF u32_gt(tick_delta, MAX_DELTA)
        THEN [last_change_tick |-> wrapping_sub(change_tick, MAX_DELTA), warn |-> TRUE]
        ELSE [last_change_tick |-> last_change_tick, warn |-> FALSE]

\* ------------------------------------------------------------------ state

Worlds == {"w1", "w2"}

\* The world a SystemState is built for, and a FunctionSystem is initialized
\* and run against.
Home == "w1"

VARIABLES
    world_change_tick, \* World: the change counter of each world (u32)
    archetypes,    \* World: archetypes().generation() of each world
    tick_return,   \* World: what increment_change_tick returns
    param,         \* the parameter kind Param of the state and of the system
    state,         \* the SystemState<Param>
    system,        \* the FunctionSystem<In, Out, Param, Marker, F>
    token,         \* Option<PtrMut<World>>: the pointer last built
    call,          \* the last operation: its name, world, outcome and steps
    used,          \* how much of each bound the behaviour has used
    history        \* what the program does not keep: the invocations in flight, the
                   \* ticks captured, and the increments counted without wrapping

vars == <<world_change_tick, archetypes, tick_return, param, state, system, token, call, used,
          history>>

\* ------------------------------------------------------------------ World

\* World::increment_change_tick: the counter after the call.
incremented(tick) == wrapping_add(tick, U32(0, 1))

\* World::increment_change_tick: the value the call returns.
increment_change_tick(tick, ret) ==
    IF ret = "previous" THEN tick ELSE incremented(tick)

\* ---------------------------------------------------------- Access, params

\* Access::default()
Access_default == [reads |-> {}, writes |-> {}]

add_read(access, id) == [access EXCEPT !.reads = @ \cup {id}]

add_write(access, id) ==
    [access EXCEPT !.reads = @ \cup {id}, !.writes = @ \cup {id}]

\* Two parameter kinds: Res<T> reads and is Send, NonSendMut<T> writes and
\* makes its system non-send.
ParamKinds == {"Res", "NonSendMut"}

add_access(access, kind, id) ==
    IF kind = "NonSendMut" THEN add_write(access, id) ELSE add_read(access, id)

\* The identifiers a descriptor names at all.
Access_ids(access) == access.reads \cup access.writes

\* Access::is_compatible: neither side writes what the other reads or writes
\* (reads holds every identifier read or written).
is_compatible(a, b) ==
    /\ a.writes \cap b.reads = {}
    /\ a.reads \cap b.writes = {}

\* The conflict test between the descriptors of two systems.
conflicts(a, b) == ~is_compatible(a, b)

\* ------------------------------------------------------------- SystemMeta

\* SystemMeta::new::<T>()
SystemMeta_new(name) ==
    [ name |-> name,
      archetype_component_access |-> Access_default,
      component_access_set |-> Access_default,
      is_send |-> TRUE,
      last_change_tick |-> U32(0, 0) ]

\* SystemMeta::is_send
is_send(meta) == meta.is_send

\* A variant of set_non_send that toggles the flag.
set_non_send_toggle(meta) == [meta EXCEPT !.is_send = ~@]

\* SystemMeta::set_non_send
set_non_send(meta) == [meta EXCEPT !.is_send = FALSE]

\* SystemMeta::check_change_tick
SystemMeta_check_change_tick(meta, tick) ==
    LET r == check_system_change_tick(meta.last_change_tick, tick)
    IN  [meta |-> [meta EXCEPT !.last_change_tick = r.last_change_tick], warn |-> r.warn]

\* ------------------------------------------------------- SystemParamState

\* <Param::Fetch as SystemParamState>::init(world, &mut meta): the new state
\* and the meta it leaves, with the parameter's component access registered.
param_init(kind, meta) ==
    LET registered == [meta EXCEPT !.component_access_set = add_access(@, kind, "T")]
    IN  [ param_state |-> [archetypes |-> <<>>],
          meta |-> IF kind = "NonSendMut" THEN set_non_send(registered) ELSE registered ]

\* param_state.new_archetype(archetype, &mut meta) for the archetype of index a.
param_new_archetype(kind, param_state, meta, a) ==
    [ param_state |-> [param_state EXCEPT !.archetypes = Append(@, a)],
      meta |-> [meta EXCEPT !.archetype_component_access = add_access(@, kind, a)] ]

\* ------------------------------------------------------------------ PtrMut

\* PtrMut::from_mut(value): the NonNull pointer to the value.
PtrMut_from_mut(w) == [inner |-> w]

\* PtrMut::inner
PtrMut_inner(p) == p.inner

\* PtrMut::deref and PtrMut::as_ref: the pointee, unconditionally.
PtrMut_deref(p) == PtrMut_inner(p)

\* PtrMut::deref_mut and PtrMut::as_mut: the pointee, unconditionally.
PtrMut_deref_mut(p) == PtrMut_inner(p)

\* ---------------------------------------------------------- FunctionSystem

Markers == {"InputMarker", "()"}

\* The inputs a caller gives to run: a usize for a callable with an In<usize>
\* parameter, the unit value otherwise.
Inputs(marker) ==
    IF marker = "InputMarker" THEN {<<n>> : n \in (0..MaxInput) \cup {12}} ELSE {<<>>}

\* IntoSystem::into_system(func)
into_system(marker) ==
    [ func |-> [calls |-> 0, args |-> <<>>],
      param_state |-> <<>>,
      system_meta |-> SystemMeta_new("F"),
      marker |-> marker ]

\* The wrapped callable: fn square(In(input): In<usize>) -> usize for a
\* callable with an input, a callable counting its invocations otherwise.
\* args is what the callable received in its In slot.
call_inner(func, args) ==
    [ func |-> [calls |-> func.calls + 1, args |-> args],
      out |-> IF Len(args) = 1 THEN <<args[1] * args[1]>> ELSE <<>> ]

\* A variant of the InputMarker impl that drops the caller's input.
SystemParamFunction_run_no_input(func, marker, input, meta, tick) ==
    LET r == call_inner(func, <<>>)
    IN  [ func |-> r.func, out |-> r.out,
          events |-> << <<"get_param", tick, meta.last_change_tick>>,
                        <<"call", <<>>, meta.last_change_tick>> >> ]

\* SystemParamFunction::run when the callable panics: get_param with the
\* tick, then the callable is entered and does not return.
SystemParamFunction_run_unwinding(func, marker, input, meta, tick) ==
    LET args == IF marker = "InputMarker" THEN input ELSE <<>>
        r == call_inner(func, args)
    IN  [ func |-> r.func,
          events |-> << <<"get_param", tick, meta.last_change_tick>>,
                        <<"call", args, meta.last_change_tick>> >> ]

\* SystemParamFunction::run: get_param with the tick, then the callable, with
\* In(input) in its first slot under InputMarker and without it under ().
\* Both steps see the system's meta as the caller lent it; the events record
\* the last_change_tick it holds.
SystemParamFunction_run(func, marker, input, meta, tick) ==
    LET args == IF marker = "InputMarker" THEN input ELSE <<>>
        r == call_inner(func, args)
    IN  [ func |-> r.func, out |-> r.out,
          events |-> << <<"get_param", tick, meta.last_change_tick>>,
                        <<"call", args, meta.last_change_tick>> >> ]

\* A variant of initialize that starts from a fresh meta.
FunctionSystem_initialize_fresh_meta(sys, kind) ==
    LET r == param_init(kind, SystemMeta_new(sys.system_meta.name))
    IN  [ system |-> [sys EXCEPT !.param_state = <<r.param_state>>, !.system_meta = r.meta],
          outcome |-> "ok" ]

\* FunctionSystem::initialize
FunctionSystem_initialize(sys, kind) ==
    LET r == param_init(kind, sys.system_meta)
    IN  [ system |-> [sys EXCEPT !.param_state = <<r.param_state>>, !.system_meta = r.meta],
          outcome |-> "ok" ]

\* FunctionSystem::new_archetype: unwrap() of the parameter state, then the
\* notification.
FunctionSystem_new_archetype(sys, kind, a) ==
    IF Len(sys.param_state) = 0
    THEN [system |-> sys, outcome |-> "panic"]
    ELSE LET r == param_new_archetype(kind, sys.param_state[1], sys.system_meta, a)
         IN  [ system |-> [sys EXCEPT !.param_state = <<r.param_state>>, !.system_meta = r.meta],
               outcome |-> "ok" ]

\* A variant of run_unchecked that does not touch the world's change tick.
FunctionSystem_run_unchecked_no_increment(sys, input, tick, ret) ==
    IF Len(sys.param_state) = 0
    THEN [ system |-> sys, outcome |-> "panic", out |-> <<>>, world_tick |-> tick,
           events |-> <<>> ]
    ELSE LET r == SystemParamFunction_run(sys.func, sys.marker, input, sys.system_meta, tick)
         IN  [ system |-> [sys EXCEPT !.func = r.func, !.system_meta.last_change_tick = tick],
               outcome |-> "ok", out |-> r.out, world_tick |-> tick,
               events |-> r.events \o << <<"last_change_tick", tick>> >> ]

\* A variant of run_unchecked that stores the tick after the captured one.
FunctionSystem_run_unchecked_next_tick(sys, input, tick, ret) ==
    LET change_tick == increment_change_tick(tick, ret)
        inc == << <<"increment_change_tick", change_tick>> >>
    IN  IF Len(sys.param_state) = 0
        THEN [ system |-> sys, outcome |-> "panic", out |-> <<>>,
               world_tick |-> incremented(tick), events |-> inc ]
        ELSE LET r == SystemParamFunction_run(sys.func, sys.marker, input,
                                              sys.system_meta, change_tick)
             IN  [ system |-> [sys EXCEPT !.func = r.func,
                                          !.system_meta.last_change_tick =
                                             incremented(change_tick)],
                   outcome |-> "ok", out |-> r.out, world_tick |-> incremented(tick),
                   events |-> inc \o r.events
                                 \o << <<"last_change_tick", incremented(change_tick)>> >> ]

\* FunctionSystem::run_unchecked when the callable panics: the unwind leaves
\* run_unchecked before last_change_tick is stored.
FunctionSystem_run_unchecked_unwinding(sys, input, tick, ret) ==
    LET change_tick == increment_change_tick(tick, ret)
        inc == << <<"increment_change_tick", change_tick>> >>
    IN  IF Len(sys.param_state) = 0
        THEN [ system |-> sys, outcome |-> "panic", out |-> <<>>,
               world_tick |-> incremented(tick), events |-> inc ]
        ELSE LET r == SystemParamFunction_run_unwinding(sys.func, sys.marker, input,
                                                        sys.system_meta, change_tick)
             IN  [ system |-> [sys EXCEPT !.func = r.func],
                   outcome |-> "panic", out |-> <<>>, world_tick |-> incremented(tick),
                   events |-> inc \o r.events ]

\* A variant of run_unchecked that stores last_change_tick before it runs
\* the function.
FunctionSystem_run_unchecked_store_first(sys, input, tick, ret) ==
    LET change_tick == increment_change_tick(tick, ret)
        inc == << <<"increment_change_tick", change_tick>> >>
        stored == [sys EXCEPT !.system_meta.last_change_tick = change_tick]
    IN  IF Len(sys.param_state) = 0
        THEN [ system |-> sys, outcome |-> "panic", out |-> <<>>,
               world_tick |-> incremented(tick), events |-> inc ]
        ELSE LET r == SystemParamFunction_run(sys.func, sys.marker, input,
                                              stored.system_meta, change_tick)
             IN  [ system |-> [stored EXCEPT !.func = r.func],
                   outcome |-> "ok", out |-> r.out, world_tick |-> incremented(tick),
                   events |-> inc \o r.events \o << <<"last_change_tick", change_tick>> >> ]

\* FunctionSystem::run_unchecked on a world whose change tick is tick: the
\* tick is incremented first, then the parameter state is unwrapped, the
\* function runs, and last_change_tick is stored.
FunctionSystem_run_unchecked(sys, input, tick, ret) ==
    LET change_tick == increment_change_tick(tick, ret)
        inc == << <<"increment_change_tick", change_tick>> >>
    IN  IF Len(sys.param_state) = 0
        THEN [ system |-> sys, outcome |-> "panic", out |-> <<>>,
               world_tick |-> incremented(tick), events |-> inc ]
        ELSE LET r == SystemParamFunction_run(sys.func, sys.marker, input,
                                              sys.system_meta, change_tick)
             IN  [ system |-> [sys EXCEPT !.func = r.func,
                                          !.system_meta.last_change_tick = change_tick],
                   outcome |-> "ok", out |-> r.out, world_tick |-> incremented(tick),
                   events |-> inc \o r.events \o << <<"last_change_tick", change_tick>> >> ]

\* A variant of apply_buffers that forgets the archetypes the system has
\* recorded access to.
FunctionSystem_apply_buffers_clearing(sys) ==
    [ system |-> [sys EXCEPT !.system_meta.archetype_component_access = Access_default],
      outcome |-> IF Len(sys.param_state) = 0 THEN "panic" ELSE "ok" ]

\* A variant of apply_buffers that tolerates a missing parameter state.
FunctionSystem_apply_buffers_lenient(sys) == [system |-> sys, outcome |-> "ok"]

\* FunctionSystem::apply_buffers: unwrap() of the parameter state, then apply.
FunctionSystem_apply_buffers(sys) ==
    [system |-> sys, outcome |-> IF Len(sys.param_state) = 0 THEN "panic" ELSE "ok"]

\* A variant of check_change_tick that unwraps the parameter state first.
FunctionSystem_check_change_tick_unwrap(sys, tick) ==
    LET r == check_system_change_tick(sys.system_meta.last_change_tick, tick)
    IN  IF Len(sys.param_state) = 0
        THEN [system |-> sys, outcome |-> "panic", warn |-> FALSE]
        ELSE [ system |-> [sys EXCEPT !.system_meta.last_change_tick = r.last_change_tick],
               outcome |-> "ok", warn |-> r.warn ]

\* FunctionSystem::check_change_tick
FunctionSystem_check_change_tick(sys, tick) ==
    LET r == check_system_change_tick(sys.system_meta.last_change_tick, tick)
    IN  [ system |-> [sys EXCEPT !.system_meta.last_change_tick = r.last_change_tick],
          outcome |-> "ok", warn |-> r.warn ]

\* A variant of component_access that hands out a fresh, empty descriptor.
FunctionSystem_component_access_fresh(sys) == Access_default

\* FunctionSystem::component_access: the combined access of the set.
FunctionSystem_component_access(sys) == sys.system_meta.component_access_set

\* FunctionSystem::archetype_component_access
FunctionSystem_archetype_component_access(sys) ==
    sys.system_meta.archetype_component_access

\* FunctionSystem::is_send
FunctionSystem_is_send(sys) == sys.system_meta.is_send

\* ------------------------------------------------------------- SystemState

\* ArchetypeGeneration::initial()
ArchetypeGeneration_initial == 0

\* SystemState::new(world)
SystemState_new(w, kind) ==
    LET r == param_init(kind, SystemMeta_new("Param"))
    IN  [ meta |-> r.meta,
          param_state |-> r.param_state,
          world_id |-> w,
          archetype_generation |-> ArchetypeGeneration_initial ]

\* SystemState::matches_world
matches_world(st, w) == st.world_id = w

\* A variant of new_archetype that also marks the archetype as observed.
SystemState_new_archetype_advancing(st, kind, a) ==
    LET r == param_new_archetype(kind, st.param_state, st.meta, a)
    IN  [st EXCEPT !.param_state = r.param_state, !.meta = r.meta,
                   !.archetype_generation = a + 1]

\* SystemState::new_archetype
SystemState_new_archetype(st, kind, a) ==
    LET r == param_new_archetype(kind, st.param_state, st.meta, a)
    IN  [st EXCEPT !.param_state = r.param_state, !.meta = r.meta]

\* for archetype_index in archetype_index_range { new_archetype(...) }: the
\* state and the notifications made, for the half-open range from..to.
RECURSIVE update_archetypes(_, _, _, _)
update_archetypes(st, kind, from, to) ==
    IF from >= to
    THEN [state |-> st, events |-> <<>>]
    ELSE LET rest == update_archetypes(SystemState_new_archetype(st, kind, from), kind, from + 1, to)
         IN  [state |-> rest.state, events |-> << <<"new_archetype", <<from>> >> >> \o rest.events]

\* A variant that starts the range one past the observed generation.
validate_world_and_update_archetypes_skip(st, kind, w, new_generation) ==
    IF ~matches_world(st, w)
    THEN [state |-> st, outcome |-> "panic", events |-> <<>>]
    ELSE LET old_generation == st.archetype_generation
             r == update_archetypes([st EXCEPT !.archetype_generation = new_generation],
                                    kind, old_generation + 1, new_generation)
         IN  [state |-> r.state, outcome |-> "ok", events |-> r.events]

\* A variant without the assert on the world.
validate_world_and_update_archetypes_no_assert(st, kind, w, new_generation) ==
    LET old_generation == st.archetype_generation
        r == update_archetypes([st EXCEPT !.archetype_generation = new_generation],
                               kind, old_generation, new_generation)
    IN  [state |-> r.state, outcome |-> "ok", events |-> r.events]

\* SystemState::validate_world_and_update_archetypes, for a world whose
\* archetypes().generation() is new_generation.
validate_world_and_update_archetypes(st, kind, w, new_generation) ==
    IF ~matches_world(st, w)
    THEN [state |-> st, outcome |-> "panic", events |-> <<>>]
    ELSE LET old_generation == st.archetype_generation
             r == update_archetypes([st EXCEPT !.archetype_generation = new_generation],
                                    kind, old_generation, new_generation)
         IN  [state |-> r.state, outcome |-> "ok", events |-> r.events]

\* The loop of validate_world_and_update_archetypes when the new_archetype
\* call for the archetype of index fail panics: the notifications before it
\* were made, the panicking one and those after it were not.
RECURSIVE update_archetypes_unwinding(_, _, _, _, _)
update_archetypes_unwinding(st, kind, from, to, fail) ==
    IF from >= to \/ from = fail
    THEN [state |-> st, events |-> <<>>]
    ELSE LET rest == update_archetypes_unwinding(SystemState_new_archetype(st, kind, from),
                                                 kind, from + 1, to, fail)
         IN  [state |-> rest.state, events |-> << <<"new_archetype", <<from>> >> >> \o rest.events]

\* SystemState::validate_world_and_update_archetypes when the new_archetype
\* call for the archetype of index fail panics and the panic unwinds out of
\* the call: the state it leaves behind.
validate_world_and_update_archetypes_unwinding(st, kind, w, new_generation, fail) ==
    IF ~matches_world(st, w)
    THEN [state |-> st, outcome |-> "panic", events |-> <<>>]
    ELSE LET old_generation == st.archetype_generation
             r == update_archetypes_unwinding([st EXCEPT !.archetype_generation = new_generation],
                                              kind, old_generation, new_generation, fail)
         IN  [ state |-> r.state, outcome |-> "panic",
               events |-> r.events \o << <<"new_archetype_panic", <<fail>> >> >> ]

\* A variant that stores the tick one past the captured tick.
get_unchecked_manual_off_by_one(st, tick, ret) ==
    LET change_tick == increment_change_tick(tick, ret)
    IN  [ state |-> [st EXCEPT !.meta.last_change_tick = incremented(change_tick)],
          outcome |-> "ok", world_tick |-> incremented(tick),
          events |-> << <<"increment_change_tick", change_tick>>,
                        <<"get_param", change_tick>>,
                        <<"last_change_tick", incremented(change_tick)>> >> ]

\* A variant that marks one more archetype generation as observed.
get_unchecked_manual_observing(st, tick, ret) ==
    LET change_tick == increment_change_tick(tick, ret)
    IN  [ state |-> [st EXCEPT !.meta.last_change_tick = change_tick,
                               !.archetype_generation = @ + 1],
          outcome |-> "ok", world_tick |-> incremented(tick),
          events |-> << <<"increment_change_tick", change_tick>>,
                        <<"get_param", change_tick>>,
                        <<"last_change_tick", change_tick>> >> ]

\* SystemState::get_unchecked_manual on a world whose change tick is tick.
get_unchecked_manual(st, tick, ret) ==
    LET change_tick == increment_change_tick(tick, ret)
    IN  [ state |-> [st EXCEPT !.meta.last_change_tick = change_tick],
          outcome |-> "ok", world_tick |-> incremented(tick),
          events |-> << <<"increment_change_tick", change_tick>>,
                        <<"get_param", change_tick>>,
                        <<"last_change_tick", change_tick>> >> ]

\* A variant of get that takes the tick before it validates the world.
SystemState_get_tick_first(st, kind, w, new_generation, tick, ret) ==
    LET v == validate_world_and_update_archetypes(st, kind, w, new_generation)
        change_tick == increment_change_tick(tick, ret)
    IN  IF v.outcome = "panic"
        THEN [ state |-> v.state, outcome |-> "panic", world_tick |-> incremented(tick),
               events |-> << <<"increment_change_tick", change_tick>> >> ]
        ELSE LET g == get_unchecked_manual(v.state, tick, ret)
             IN  [ state |-> g.state, outcome |-> g.outcome, world_tick |-> g.world_tick,
                   events |-> v.events \o g.events ]

\* SystemState::get
SystemState_get(st, kind, w, new_generation, tick, ret) ==
    LET v == validate_world_and_update_archetypes(st, kind, w, new_generation)
    IN  IF v.outcome = "panic"
        THEN [state |-> v.state, outcome |-> "panic", world_tick |-> tick, events |-> v.events]
        ELSE LET g == get_unchecked_manual(v.state, tick, ret)
             IN  [ state |-> g.state, outcome |-> g.outcome, world_tick |-> g.world_tick,
                   events |-> v.events \o g.events ]

\* ParamSystem::component_access, on the ParamSystem's SystemState.
ParamSystem_component_access(st) == st.meta.component_access_set

\* ParamSystem::archetype_component_access
ParamSystem_archetype_component_access(st) == st.meta.archetype_component_access

\* SystemState::apply
SystemState_apply(st) == st

\* ------------------------------------------------------------ initial state

\* The change tick a world may have reached when the system is constructed:
\* 1 for a new world, and u32::MAX for one about to wrap.
TickStarts == {U32(0, 1), U32_MAX}

\* The change ticks given to check_change_tick: around 0 and around
\* MAX_DELTA, where the distance to a stored tick of 0, 1 or u32::MAX
\* crosses the boundary.
TickArgs ==
    { U32(0, 0),
      wrapping_sub(MAX_DELTA, U32(0, 1)),
      MAX_DELTA,
      wrapping_add(MAX_DELTA, U32(0, 1)) }

NoCall ==
    [ op |-> "none", world |-> "-", outcome |-> "ok", out |-> <<>>, arg |-> <<>>,
      events |-> <<>>, warn |-> FALSE ]

Called(op, w, outcome, out, arg, events, warn) ==
    [ op |-> op, world |-> w, outcome |-> outcome, out |-> out, arg |-> arg,
      events |-> events, warn |-> warn ]

\* No invocation in flight, no tick captured, no increment counted.
NoHistory ==
    [ inflight |-> [s \in {"system", "state"} |-> <<>>],
      captured |-> <<>>,
      age |-> <<0, 0>>,
      unchecked |-> <<0, 0>> ]

InitCommon ==
    /\ archetypes = [w \in Worlds |-> 0]
    /\ tick_return \in {"previous", "incremented"}
    /\ param \in ParamKinds
    /\ token = <<>>
    /\ call = NoCall
    /\ used = [incs |-> 0, notify |-> 0, advances |-> 0]

\* A FunctionSystem just returned by into_system, and a world.
Init ==
    /\ InitCommon
    /\ history = NoHistory
    /\ \E t \in TickStarts : world_change_tick = [w \in Worlds |-> t]
    /\ state = SystemState_new(Home, param)
    /\ \E m \in Markers : system = into_system(m)

\* A SystemState just returned by SystemState::new for one of two worlds
\* (the worlds are interchangeable: it is Home).
StateInit ==
    /\ InitCommon
    /\ history = NoHistory
    /\ \E t \in TickStarts : world_change_tick = [w \in Worlds |-> t]
    /\ state = SystemState_new(Home, param)
    /\ system = into_system("()")

\* ------------------------------------------------- actions: FunctionSystem

\* The world gains an archetype.
CreateArchetype(w) ==
    /\ archetypes[w] < MaxArchetypes
    /\ archetypes' = [archetypes EXCEPT ![w] = @ + 1]
    /\ call' = Called("create_archetype", w, "ok", <<>>, <<>>, <<>>, FALSE)
    /\ UNCHANGED <<history, world_change_tick, tick_return, param, state, system, token, used>>

Initialize ==
    LET r == FunctionSystem_initialize(system, param)
    IN  /\ system' = r.system
        /\ call' = Called("initialize", Home, r.outcome, <<>>, <<>>, <<>>, FALSE)
        /\ UNCHANGED <<history, world_change_tick, archetypes, tick_return, param, state, token, used>>

NewArchetype(a) ==
    LET r == FunctionSystem_new_archetype(system, param, a)
    IN  /\ a < archetypes[Home]
        /\ used.notify < MaxNotify
        /\ system' = r.system
        /\ used' = IF r.outcome = "ok" THEN [used EXCEPT !.notify = @ + 1] ELSE used
        /\ call' = Called("new_archetype", Home, r.outcome, <<>>, <<a>>, <<>>, FALSE)
        /\ UNCHANGED <<history, world_change_tick, archetypes, tick_return, param, state, token>>

\* run_unchecked(input, world) with the pointer the caller built.
RunUnchecked(input) ==
    LET world == PtrMut_from_mut(Home)
        w == PtrMut_deref(world)
        r == FunctionSystem_run_unchecked(system, input, world_change_tick[w], tick_return)
    IN  /\ used.incs < MaxIncrements
        /\ token' = <<world>>
        /\ system' = r.system
        /\ world_change_tick' = [world_change_tick EXCEPT ![w] = r.world_tick]
        /\ used' = [used EXCEPT !.incs = @ + 1]
        /\ call' = Called("run_unchecked", w, r.outcome, r.out, input, r.events, FALSE)
        /\ UNCHANGED <<history, archetypes, tick_return, param, state>>

\* System::run: from_mut(world), then run_unchecked.
Run(input) ==
    LET world == PtrMut_from_mut(Home)
        w == PtrMut_deref(world)
        r == FunctionSystem_run_unchecked(system, input, world_change_tick[w], tick_return)
    IN  /\ used.incs < MaxIncrements
        /\ token' = <<world>>
        /\ system' = r.system
        /\ world_change_tick' = [world_change_tick EXCEPT ![w] = r.world_tick]
        /\ used' = [used EXCEPT !.incs = @ + 1]
        /\ call' = Called("run", w, r.outcome, r.out, input, r.events, FALSE)
        /\ UNCHANGED <<history, archetypes, tick_return, param, state>>

ApplyBuffers ==
    LET r == FunctionSystem_apply_buffers(system)
    IN  /\ system' = r.system
        /\ call' = Called("apply_buffers", Home, r.outcome, <<>>, <<>>, <<>>, FALSE)
        /\ UNCHANGED <<history, world_change_tick, archetypes, tick_return, param, state, token, used>>

\* check_change_tick(change_tick)
CheckChangeTick(tick) ==
    LET r == FunctionSystem_check_change_tick(system, tick)
    IN  /\ system' = r.system
        /\ call' = Called("check_change_tick", "-", r.outcome, <<>>, tick, <<>>, r.warn)
        /\ UNCHANGED <<history, world_change_tick, archetypes, tick_return, param, state, token, used>>

Next ==
    \/ CreateArchetype(Home)
    \/ Initialize
    \/ \E a \in 0..(MaxArchetypes - 1) : NewArchetype(a)
    \/ \E input \in Inputs(system.marker) : RunUnchecked(input)
    \/ \E input \in Inputs(system.marker) : Run(input)
    \/ ApplyBuffers
    \/ \E tick \in TickArgs : CheckChangeTick(tick)

Spec == Init /\ [][Next]_vars

\* ---------------------------------------------------- actions: SystemState

\* state.get(&mut world)
Get(w) ==
    LET r == SystemState_get(state, param, w, archetypes[w], world_change_tick[w], tick_return)
    IN  /\ used.incs < MaxIncrements
        /\ state' = r.state
        /\ world_change_tick' = [world_change_tick EXCEPT ![w] = r.world_tick]
        /\ token' = IF r.outcome = "ok" THEN <<PtrMut_from_mut(w)>> ELSE token
        /\ used' = IF r.outcome = "ok" THEN [used EXCEPT !.incs = @ + 1] ELSE used
        /\ call' = Called("get", w, r.outcome, <<>>, <<>>, r.events, FALSE)
        /\ UNCHANGED <<history, archetypes, tick_return, param, system>>

\* state.get_unchecked_manual(world) with a pointer to the state's own world,
\* which the caller must ensure.
GetUncheckedManual ==
    LET world == PtrMut_from_mut(state.world_id)
        w == PtrMut_deref(world)
        r == get_unchecked_manual(state, world_change_tick[w], tick_return)
    IN  /\ used.incs < MaxIncrements
        /\ state' = r.state
        /\ world_change_tick' = [world_change_tick EXCEPT ![w] = r.world_tick]
        /\ token' = <<world>>
        /\ used' = [used EXCEPT !.incs = @ + 1]
        /\ call' = Called("get_unchecked_manual", w, r.outcome, <<>>, <<>>, r.events, FALSE)
        /\ UNCHANGED <<history, archetypes, tick_return, param, system>>

\* state.new_archetype(archetype), as ParamSystem::new_archetype calls it,
\* for an archetype of the state's world.
StateNewArchetype(a) ==
    /\ a < archetypes[state.world_id]
    /\ used.notify < MaxNotify
    /\ state' = SystemState_new_archetype(state, param, a)
    /\ used' = [used EXCEPT !.notify = @ + 1]
    /\ call' = Called("state_new_archetype", state.world_id, "ok", <<>>, <<a>>,
                      << <<"new_archetype", <<a>> >> >>, FALSE)
    /\ UNCHANGED <<history, world_change_tick, archetypes, tick_return, param, system, token>>

\* state.apply(&mut world)
Apply(w) ==
    /\ state' = SystemState_apply(state)
    /\ call' = Called("apply", w, "ok", <<>>, <<>>, <<>>, FALSE)
    /\ UNCHANGED <<history, world_change_tick, archetypes, tick_return, param, system, token, used>>

\* ParamSystem::check_change_tick
StateCheckChangeTick(tick) ==
    LET r == SystemMeta_check_change_tick(state.meta, tick)
    IN  /\ state' = [state EXCEPT !.meta = r.meta]
        /\ call' = Called("check_change_tick", "-", "ok", <<>>, tick, <<>>, r.warn)
        /\ UNCHANGED <<history, world_change_tick, archetypes, tick_return, param, system, token, used>>

\* deref / as_ref on the pointer last built.
Deref ==
    /\ Len(token) = 1
    /\ call' = Called("deref", PtrMut_deref(token[1]), "ok", <<>>, <<>>, <<>>, FALSE)
    /\ UNCHANGED <<history, world_change_tick, archetypes, tick_return, param, state, system, token, used>>

\* deref_mut / as_mut on the pointer last built.
DerefMut ==
    /\ Len(token) = 1
    /\ call' = Called("deref_mut", PtrMut_deref_mut(token[1]), "ok", <<>>, <<>>, <<>>, FALSE)
    /\ UNCHANGED <<history, world_change_tick, archetypes, tick_return, param, state, system, token, used>>

StateNext ==
    \/ \E w \in Worlds : CreateArchetype(w)
    \/ \E w \in Worlds : Get(w)
    \/ GetUncheckedManual
    \/ \E a \in 0..(MaxArchetypes - 1) : StateNewArchetype(a)
    \/ \E w \in Worlds : Apply(w)
    \/ \E tick \in TickArgs : StateCheckChangeTick(tick)
    \/ Deref
    \/ DerefMut

StateSpec == StateInit /\ [][StateNext]_vars

\* ------------------------------------ actions: a notification that panics

\* state.get(&mut world) during which the parameter state's new_archetype
\* panics on the archetype of index fail; the caller catches the unwind and
\* keeps the SystemState.
GetUnwinding(w, fail) ==
    LET r == validate_world_and_update_archetypes_unwinding(state, param, w, archetypes[w], fail)
    IN  /\ matches_world(state, w)
        /\ fail >= state.archetype_generation
        /\ fail < archetypes[w]
        /\ state' = r.state
        /\ call' = Called("get", w, r.outcome, <<>>, <<fail>>, r.events, FALSE)
        /\ UNCHANGED <<history, world_change_tick, archetypes, tick_return, param, system, token, used>>

StateUnwindNext ==
    \/ StateNext
    \/ \E w \in Worlds, fail \in 0..(MaxArchetypes - 1) : GetUnwinding(w, fail)

\* SystemState with a parameter state whose new_archetype may panic.
StateUnwindSpec == StateInit /\ [][StateUnwindNext]_vars

\* -------------------------------------- actions: a callable that panics

\* run(input, world) of an initialized system whose callable panics.
RunUnwinding(input) ==
    LET world == PtrMut_from_mut(Home)
        w == PtrMut_deref(world)
        r == FunctionSystem_run_unchecked_unwinding(system, input, world_change_tick[w],
                                                    tick_return)
    IN  /\ used.incs < MaxIncrements
        /\ Len(system.param_state) = 1
        /\ token' = <<world>>
        /\ system' = r.system
        /\ world_change_tick' = [world_change_tick EXCEPT ![w] = r.world_tick]
        /\ used' = [used EXCEPT !.incs = @ + 1]
        /\ call' = Called("run", w, r.outcome, r.out, input, r.events, FALSE)
        /\ UNCHANGED <<history, archetypes, tick_return, param, state>>

UnwindNext ==
    \/ Next
    \/ \E input \in Inputs(system.marker) : RunUnwinding(input)

\* FunctionSystem with a callable that may panic.
UnwindSpec == Init /\ [][UnwindNext]_vars

\* ------------------------------------------ actions: concurrent invocations

\* The scheduler runs the FunctionSystem and the ParamSystem on two workers
\* against the same world.  The increment of the world's change tick is one
\* atomic step on the shared world; what follows it in an invocation touches
\* the system's own fields only and is one more step.

\* run_unchecked of the FunctionSystem, up to and including
\* world.increment_change_tick().
BeginRun(input) ==
    LET world == PtrMut_from_mut(Home)
        w == PtrMut_deref(world)
        change_tick == increment_change_tick(world_change_tick[w], tick_return)
    IN  /\ used.incs < MaxIncrements
        /\ Len(system.param_state) = 1
        /\ history.inflight["system"] = <<>>
        /\ token' = <<world>>
        /\ world_change_tick' = [world_change_tick EXCEPT ![w] = incremented(@)]
        /\ history' = [history EXCEPT
                          !.inflight["system"] = <<world_change_tick[w], input>>,
                          !.captured = Append(@, <<"system", change_tick>>)]
        /\ used' = [used EXCEPT !.incs = @ + 1]
        /\ call' = Called("begin_run_unchecked", w, "ok", <<>>, input,
                          << <<"increment_change_tick", change_tick>> >>, FALSE)
        /\ UNCHANGED <<archetypes, tick_return, param, state, system>>

\* The rest of that run_unchecked: func.run with the captured tick, then the
\* store of last_change_tick.
FinishRun ==
    /\ history.inflight["system"] # <<>>
    /\ LET began == history.inflight["system"]
           r == FunctionSystem_run_unchecked(system, began[2], began[1], tick_return)
       IN  /\ system' = r.system
           /\ call' = Called("run_unchecked", Home, r.outcome, r.out, began[2], r.events, FALSE)
    /\ history' = [history EXCEPT !.inflight["system"] = <<>>]
    /\ UNCHANGED <<world_change_tick, archetypes, tick_return, param, state, token, used>>

\* ParamSystem::run_unchecked, up to and including the increment made by
\* state.get_unchecked_manual(world).
BeginFetch ==
    LET world == PtrMut_from_mut(state.world_id)
        w == PtrMut_deref(world)
        change_tick == increment_change_tick(world_change_tick[w], tick_return)
    IN  /\ used.incs < MaxIncrements
        /\ history.inflight["state"] = <<>>
        /\ token' = <<world>>
        /\ world_change_tick' = [world_change_tick EXCEPT ![w] = incremented(@)]
        /\ history' = [history EXCEPT
                          !.inflight["state"] = <<world_change_tick[w]>>,
                          !.captured = Append(@, <<"state", change_tick>>)]
        /\ used' = [used EXCEPT !.incs = @ + 1]
        /\ call' = Called("begin_get_unchecked_manual", w, "ok", <<>>, <<>>,
                          << <<"increment_change_tick", change_tick>> >>, FALSE)
        /\ UNCHANGED <<archetypes, tick_return, param, state, system>>

\* The rest of that get_unchecked_manual: get_param with the captured tick
\* and the store of last_change_tick; then the ParamSystem's function runs.
FinishFetch ==
    /\ history.inflight["state"] # <<>>
    /\ LET began == history.inflight["state"]
           r == get_unchecked_manual(state, began[1], tick_return)
       IN  /\ state' = r.state
           /\ call' = Called("get_unchecked_manual", state.world_id, r.outcome, <<>>, <<>>,
                             r.events, FALSE)
    /\ history' = [history EXCEPT !.inflight["state"] = <<>>]
    /\ UNCHANGED <<world_change_tick, archetypes, tick_return, param, system, token, used>>

ConcurrentNext ==
    \/ Initialize
    \/ \E input \in Inputs(system.marker) : BeginRun(input)
    \/ FinishRun
    \/ BeginFetch
    \/ FinishFetch

\* Two systems run by a scheduler on separate workers.
ConcurrentSpec == Init /\ [][ConcurrentNext]_vars

\* ------------------------------------------------ actions: a long-idle system

\* The longest run of increments between two checks of a system that keeps
\* the distance from wrapping: u32::MAX - MAX_DELTA.
Window == wrapping_sub(U32_MAX, MAX_DELTA)

\* The sizes of the bursts of increments other systems make.
Bursts == {U32(0, 1), wrapping_sub(Window, U32(0, 1)), Window}

\* A system that has never run counts as having run at tick 0: its age is
\* the world's change tick, and so is the number of increments not yet
\* followed by a check.
DriftInit ==
    /\ InitCommon
    /\ \E t \in TickStarts :
          /\ world_change_tick = [w \in Worlds |-> t]
          /\ history = [NoHistory EXCEPT !.age = t, !.unchecked = t]
    /\ state = SystemState_new(Home, param)
    /\ system = into_system("()")

\* Other systems run: the world's change tick is incremented n times, no more
\* than Window increments being left without a check of this system.
Advance(n) ==
    /\ used.advances < MaxAdvances
    /\ wide_le(wide_add(history.unchecked, n), Window)
    /\ world_change_tick' = [world_change_tick EXCEPT ![Home] = wrapping_add(@, n)]
    /\ history' = [history EXCEPT !.age = wide_add(@, n), !.unchecked = wide_add(@, n)]
    /\ used' = [used EXCEPT !.advances = @ + 1]
    /\ call' = Called("advance", Home, "ok", <<>>, n, <<>>, FALSE)
    /\ UNCHANGED <<archetypes, tick_return, param, state, system, token>>

\* run(input, world) of the system; its age restarts at the distance between
\* the tick it captured and the world's change tick.
DriftRun(input) ==
    LET world == PtrMut_from_mut(Home)
        w == PtrMut_deref(world)
        r == FunctionSystem_run_unchecked(system, input, world_change_tick[w], tick_return)
    IN  /\ used.incs < MaxIncrements
        /\ Len(system.param_state) = 1
        /\ wide_le(wide_add(history.unchecked, U32(0, 1)), Window)
        /\ token' = <<world>>
        /\ system' = r.system
        /\ world_change_tick' = [world_change_tick EXCEPT ![w] = r.world_tick]
        /\ history' = [history EXCEPT
                          !.age = IF tick_return = "previous" THEN U32(0, 1) ELSE U32(0, 0),
                          !.unchecked = wide_add(@, U32(0, 1))]
        /\ used' = [used EXCEPT !.incs = @ + 1]
        /\ call' = Called("run", w, r.outcome, r.out, input, r.events, FALSE)
        /\ UNCHANGED <<archetypes, tick_return, param, state>>

\* check_change_tick(world.change_tick()), as the scheduler calls it once per
\* pass.
DriftCheck ==
    LET r == FunctionSystem_check_change_tick(system, world_change_tick[Home])
    IN  /\ system' = r.system
        /\ history' = [history EXCEPT !.unchecked = U32(0, 0)]
        /\ call' = Called("check_change_tick", "-", r.outcome, <<>>, world_change_tick[Home],
                          <<>>, r.warn)
        /\ UNCHANGED <<world_change_tick, archetypes, tick_return, param, state, token, used>>

DriftNext ==
    \/ Initialize
    \/ \E n \in Bursts : Advance(n)
    \/ \E input \in Inputs(system.marker) : DriftRun(input)
    \/ DriftCheck

\* A system checked at least once in every Window increments.
DriftSpec == DriftInit /\ [][DriftNext]_vars

\* ------------------------------------------- actions: access descriptors

\* The components a parameter may name.
ComponentIds == {"T", "U"}

\* A further parameter of the function system's parameter tuple registers
\* its component access in the system's meta.
SystemRegister(kind, id) ==
    /\ system' = [system EXCEPT !.system_meta.component_access_set = add_access(@, kind, id)]
    /\ call' = Called("register", "-", "ok", <<>>, <<>>, <<<<"system", kind, id>>>>, FALSE)
    /\ UNCHANGED <<history, world_change_tick, archetypes, tick_return, param, state, token, used>>

AccessNext ==
    \/ \E kind \in ParamKinds, id \in ComponentIds : SystemRegister(kind, id)
    \/ CreateArchetype(Home)
    \/ Initialize
    \/ \E a \in 0..(MaxArchetypes - 1) : NewArchetype(a)
    \/ \E a \in 0..(MaxArchetypes - 1) : StateNewArchetype(a)
    \/ Get(Home)

\* Two systems just built, a FunctionSystem and a ParamSystem for the same
\* world; the access descriptors do not depend on the world's change tick.
AccessInit ==
    /\ StateInit
    /\ world_change_tick = [w \in Worlds |-> U32(0, 1)]
    /\ tick_return = "incremented"

\* Two systems, a FunctionSystem and a ParamSystem, whose descriptors are
\* compared by the scheduler.
AccessSpec == AccessInit /\ [][AccessNext]_vars

\* ------------------------------------------------------------------ claims

\* 0xBFFF_FFFD, the value of (u32::MAX / 4) * 3.
MaxDeltaValue == U32(49151, 65533)

One == U32(0, 1)

\* C1: under StateSpec, with no direct new_archetype notification made, when
\* a validated refresh (SystemState::get) returns, the parameter state has
\* been presented, over the whole history, exactly the archetypes of index
\* 0 .. generation - 1 of its world, each once and in ascending order.
C1_RefreshPresentsEachArchetypeOnce ==
    (call.op = "get" /\ call.outcome = "ok" /\ used.notify = 0) =>
        /\ Len(state.param_state.archetypes) = archetypes[state.world_id]
        /\ \A i \in 1..Len(state.param_state.archetypes) :
               state.param_state.archetypes[i] = i - 1

\* C1 witness: a refresh that presented only archetype 1, an earlier refresh
\* having presented archetype 0.
C1_Witness ==
    /\ call.op = "get" /\ call.outcome = "ok" /\ used.notify = 0
    /\ state.param_state.archetypes = <<0, 1>>
    /\ call.events[1] = <<"new_archetype", <<1>> >>

\* C2: check_change_tick with d = (change_tick - last_change_tick) mod 2^32:
\* if d <= 0xBFFFFFFD the stored tick is unchanged and no warning is made,
\* otherwise the stored tick becomes change_tick - 0xBFFFFFFD (mod 2^32) and
\* a warning is made.
C2_CheckChangeTickClamps ==
    [][ call'.op = "check_change_tick" =>
          LET last == system.system_meta.last_change_tick
              after == system'.system_meta.last_change_tick
              d == wrapping_sub(call'.arg, last)
          IN  IF u32_gt(d, MaxDeltaValue)
              THEN /\ wrapping_add(after, MaxDeltaValue) = call'.arg
                   /\ call'.warn
              ELSE /\ after = last
                   /\ ~call'.warn ]_vars

\* C2 witness: the exact boundary d = 0xBFFFFFFD, with a change tick that has
\* wrapped below the stored tick: nothing changed and no warning.
C2_Witness ==
    /\ call.op = "check_change_tick"
    /\ ~call.warn
    /\ wrapping_sub(call.arg, system.system_meta.last_change_tick) = MaxDeltaValue
    /\ u32_gt(system.system_meta.last_change_tick, call.arg)

\* C3: at construction and after every operation, a SystemState matches
\* exactly the world it was built for (Home), and SystemState::get panics
\* exactly when it is given another world.
C3_WorldIdentityFixed ==
    /\ \A w \in Worlds : matches_world(state, w) <=> (w = Home)
    /\ [][ /\ \A w \in Worlds : matches_world(state', w) <=> (w = Home)
           /\ call'.op = "get" =>
                 ((call'.outcome = "panic") <=> (call'.world # Home)) ]_vars

\* C3 witness: a get with the other world, rejected.
C3_Witness ==
    /\ call.op = "get" /\ call.outcome = "panic"
    /\ call.world # Home /\ ~matches_world(state, call.world)
    /\ archetypes[state.world_id] > 0

\* C4: is_send starts true; once false no operation makes it true again;
\* initialize of a non-send parameter (which calls set_non_send) leaves it
\* false, also when it is called again.
C4_SendLatch ==
    /\ FunctionSystem_is_send(system)
    /\ [][ /\ ~FunctionSystem_is_send(system) => ~FunctionSystem_is_send(system')
           /\ (call'.op = "initialize" /\ param = "NonSendMut")
                  => ~FunctionSystem_is_send(system') ]_vars

\* C4 witness: set_non_send has been called twice (a second initialize, after
\* a notification that needed the first) and the system has run since.
C4_Witness ==
    /\ ~FunctionSystem_is_send(system)
    /\ used.notify = 1
    /\ Len(system.param_state) = 1 /\ system.param_state[1].archetypes = <<>>
    /\ call.op = "run" /\ call.outcome = "ok"

\* C5 (as claimed): the metadata of the system carries an exclusivity flag,
\* which is false at construction.
C5_MetaCarriesExclusiveFlag ==
    /\ "is_exclusive" \in DOMAIN system.system_meta
    /\ call.op = "none" => ~system.system_meta.is_exclusive

\* C6 (as claimed): the pointer records the kind of borrow it was built from,
\* and deref_mut succeeds only on one built from an exclusive borrow.
C6_TokenRecordsBorrowKind ==
    /\ Len(token) = 1 => "exclusive" \in DOMAIN token[1]
    /\ (call.op = "deref_mut" /\ call.outcome = "ok") =>
           ("exclusive" \in DOMAIN token[1] /\ token[1].exclusive)

Runs == {"run", "run_unchecked"}

Initialized(sys) == Len(sys.param_state) = 1

\* C7 (as claimed): each run of an initialized system invokes the callable
\* exactly once and leaves the world's change counter strictly greater than
\* it was before the call.
C7_RunStrictlyIncreasesTick ==
    [][ (call'.op = "run" /\ Initialized(system)) =>
          /\ system'.func.calls = system.func.calls + 1
          /\ u32_gt(world_change_tick'[call'.world], world_change_tick[call'.world]) ]_vars

\* C7 (amended): each run of an initialized system invokes the callable
\* exactly once, no operation other than a run invokes it, and the run leaves
\* the world's change counter at one more than before modulo 2^32: strictly
\* greater unless the counter was u32::MAX, from where it wraps to 0.
C7_RunIncrementsTickModulo ==
    [][ /\ (call'.op = "run" /\ Initialized(system)) =>
              /\ call'.outcome = "ok"
              /\ system'.func.calls = system.func.calls + 1
              /\ world_change_tick'[call'.world]
                     = wrapping_add(world_change_tick[call'.world], One)
              /\ IF world_change_tick[call'.world] = U32(65535, 65535)
                 THEN world_change_tick'[call'.world] = U32(0, 0)
                 ELSE u32_gt(world_change_tick'[call'.world],
                             world_change_tick[call'.world])
        /\ call'.op \notin Runs => system'.func.calls = system.func.calls ]_vars

\* C7 witness: two runs, two invocations, the second after the counter has
\* wrapped.
C7_Witness ==
    /\ call.op = "run" /\ call.outcome = "ok"
    /\ system.func.calls = 2
    /\ used.incs = 2
    /\ u32_gt(One, world_change_tick[Home]) \/ world_change_tick[Home] = One

\* C8: a successful fetch on a SystemState (get or get_unchecked_manual)
\* increments the change counter of its world exactly once and of no other
\* world, gives get_param the value captured from that increment, and leaves
\* meta.last_change_tick equal to it; in get, every new_archetype
\* notification precedes the increment and the observed generation is the
\* world's.
C8_FetchIncrementsOnce ==
    [][ (call'.op \in {"get", "get_unchecked_manual"} /\ call'.outcome = "ok") =>
          LET w == call'.world
              ev == call'.events
              n == Len(ev)
          IN  /\ world_change_tick'[w] = wrapping_add(world_change_tick[w], One)
              /\ \A v \in Worlds \ {w} : world_change_tick'[v] = world_change_tick[v]
              /\ n >= 3
              /\ ev[n - 2][1] = "increment_change_tick"
              /\ ev[n - 2][2] \in {world_change_tick[w], world_change_tick'[w]}
              /\ ev[n - 1] = <<"get_param", ev[n - 2][2]>>
              /\ ev[n] = <<"last_change_tick", ev[n - 2][2]>>
              /\ state'.meta.last_change_tick = ev[n - 2][2]
              /\ \A i \in 1..(n - 3) : ev[i][1] = "new_archetype"
              /\ call'.op = "get" => state'.archetype_generation = archetypes[w]
              /\ call'.op = "get_unchecked_manual" => n = 3 ]_vars

\* C8 witness: a get that presented two archetypes and then fetched.
C8_Witness ==
    /\ call.op = "get" /\ call.outcome = "ok"
    /\ Len(call.events) = 5
    /\ call.events[2][1] = "new_archetype"
    /\ state.meta.last_change_tick = call.events[3][2]

Unwrapping == {"new_archetype", "run_unchecked", "run", "apply_buffers"}

\* C9 (as claimed): while the system is uninitialized, new_archetype,
\* run_unchecked, run, apply_buffers and check_change_tick all fail.
C9_AllFailUninitialized ==
    [][ (~Initialized(system) /\ call'.op \in Unwrapping \cup {"check_change_tick"})
            => call'.outcome = "panic" ]_vars

\* C9 (amended): the system starts uninitialized and becomes initialized only
\* through initialize; while it is uninitialized new_archetype,
\* run_unchecked, run and apply_buffers fail at the call, and
\* check_change_tick, which does not touch the parameter state, completes
\* normally; once it is initialized it stays so and no operation fails.
C9_Lifecycle ==
    /\ ~Initialized(system)
    /\ [][ /\ (~Initialized(system) /\ call'.op \in Unwrapping)
                  => (call'.outcome = "panic" /\ ~Initialized(system'))
           /\ call'.op = "check_change_tick" => call'.outcome = "ok"
           /\ (~Initialized(system) /\ Initialized(system')) => call'.op = "initialize"
           /\ call'.op = "initialize" => Initialized(system')
           /\ Initialized(system) => (Initialized(system') /\ call'.outcome = "ok") ]_vars

\* C9 witness: apply_buffers on an uninitialized system, failed.
C9_Witness ==
    /\ ~Initialized(system)
    /\ call.op = "apply_buffers" /\ call.outcome = "panic"

\* C10: a successful run of a system whose callable has an In parameter
\* invokes the callable once, with exactly the caller's input in that slot,
\* after get_param has fetched the other parameters, and returns the
\* callable's output, the square of the input; a callable without an In
\* parameter takes the unit input and receives nothing in that slot.
C10_InputReachesCallable ==
    [][ (call'.op \in Runs /\ call'.outcome = "ok") =>
          /\ system'.func.calls = system.func.calls + 1
          /\ Len(call'.events) = 4
          /\ call'.events[2][1] = "get_param"
          /\ call'.events[3][1] = "call"
          /\ call'.events[3][2] = system'.func.args
          /\ IF system.marker = "InputMarker"
             THEN /\ Len(call'.arg) = 1
                  /\ system'.func.args = call'.arg
                  /\ call'.out = <<call'.arg[1] * call'.arg[1]>>
             ELSE /\ call'.arg = <<>>
                  /\ system'.func.args = <<>>
                  /\ call'.out = <<>> ]_vars

\* C10 witness: the squaring callable run with 12 returned 144.
C10_Witness ==
    /\ call.op = "run" /\ call.outcome = "ok"
    /\ system.marker = "InputMarker"
    /\ call.arg = <<12>> /\ system.func.args = <<12>>
    /\ call.out = <<144>>

\* The identifiers a descriptor only reads.
OnlyReads(access) == access.reads \ access.writes

\* The rule, stated on stored descriptors a and b.
ConflictRule(a, b) ==
    \/ a.writes \cap b.writes # {}
    \/ a.writes \cap OnlyReads(b) # {}
    \/ b.writes \cap OnlyReads(a) # {}

C13_MismatchFailsBeforeAnyEffect ==
    [][ (call'.op = "get" /\ call'.world # Home) =>
          /\ call'.outcome = "panic"
          /\ call'.events = <<>>
          /\ state'.archetype_generation = state.archetype_generation
          /\ state'.meta = state.meta
          /\ state'.param_state = state.param_state
          /\ state' = state
          /\ world_change_tick' = world_change_tick
          /\ archetypes' = archetypes
          /\ token' = token ]_vars

\* A validated fetch was refused for a world that has archetypes the state
\* has never observed, so that a refresh would have had work to do.
C13_Witness ==
    /\ call.op = "get"
    /\ call.world # Home
    /\ call.outcome = "panic"
    /\ archetypes[call.world] > state.archetype_generation

\* C14: run or run_unchecked on a function system that was never initialized
\* aborts before any effect: the world's change tick and the system's
\* last_change_tick are as before the failed call, and the callable is not
\* invoked.
C14_UninitializedRunHasNoEffect ==
    [][ (call'.op \in Runs /\ ~Initialized(system)) =>
          /\ call'.outcome = "panic"
          /\ world_change_tick' = world_change_tick
          /\ system'.system_meta.last_change_tick = system.system_meta.last_change_tick
          /\ system'.func = system.func ]_vars

\* The archetype indices presented to the parameter state so far.
Presented(st) == { st.param_state.archetypes[i] : i \in 1..Len(st.param_state.archetypes) }

\* C15: the observed archetype generation starts at
\* ArchetypeGeneration::initial(), never decreases, equals the world's
\* current generation right after each successful refresh, and in every
\* reachable state, including after a new_archetype call failed part-way
\* through a refresh, every archetype with index below the observed
\* generation has been presented to the parameter state.
C15_GenerationIsWatermark ==
    /\ state.archetype_generation = ArchetypeGeneration_initial
    /\ [][ /\ state'.archetype_generation >= state.archetype_generation
           /\ (call'.op = "get" /\ call'.outcome = "ok") =>
                state'.archetype_generation = archetypes'[Home] ]_vars
    /\ [](\A a \in 0..(state.archetype_generation - 1) : a \in Presented(state))

\* The operations that fetch parameters without validating the world.
Unvalidated == {"get_unchecked_manual", "run_unchecked", "run"}

\* No step of the call presented an archetype.
NoArchetypePresented(events) ==
    \A i \in 1..Len(events) : events[i][1] # "new_archetype"

\* C16: an unvalidated fetch (SystemState::get_unchecked_manual, and
\* FunctionSystem::run_unchecked / System::run) performs no refresh: it
\* leaves the observed archetype generation, both access descriptors and the
\* parameter state's record of presented archetypes as they were and calls
\* new_archetype for no archetype, even when the world holds archetypes newer
\* than the observed generation.
C16_UnvalidatedFetchDoesNotRefresh ==
    [][ call'.op \in Unvalidated =>
          /\ NoArchetypePresented(call'.events)
          /\ state'.archetype_generation = state.archetype_generation
          /\ state'.param_state = state.param_state
          /\ ParamSystem_component_access(state') = ParamSystem_component_access(state)
          /\ ParamSystem_archetype_component_access(state')
               = ParamSystem_archetype_component_access(state)
          /\ system'.param_state = system.param_state
          /\ FunctionSystem_component_access(system') = FunctionSystem_component_access(system)
          /\ FunctionSystem_archetype_component_access(system')
               = FunctionSystem_archetype_component_access(system) ]_vars

\* get_unchecked_manual returned while the world held an archetype the state
\* had not observed, and the state still has not observed it.
C16_Witness ==
    /\ call.op = "get_unchecked_manual"
    /\ call.outcome = "ok"
    /\ archetypes[Home] > state.archetype_generation
    /\ Len(state.param_state.archetypes) < archetypes[Home]

Grows(a, b) == a.reads \subseteq b.reads /\ a.writes \subseteq b.writes

\* C18: the access descriptors of a system only grow: over every sequence of
\* initialize (a repeated initialize included), new_archetype, refresh and
\* parameter registration, every identifier recorded as read or as write in
\* the component access or the archetype-component access of the
\* FunctionSystem or of the SystemState is recorded with at least that access
\* after the step.
C18_AccessOnlyGrows ==
    [][ /\ Grows(system.system_meta.component_access_set,
                 system'.system_meta.component_access_set)
        /\ Grows(system.system_meta.archetype_component_access,
                 system'.system_meta.archetype_component_access)
        /\ Grows(state.meta.component_access_set, state'.meta.component_access_set)
        /\ Grows(state.meta.archetype_component_access,
                 state'.meta.archetype_component_access) ]_vars

\* A repeated initialize of a system that had recorded access to an
\* archetype, while the SystemState has recorded a refreshed archetype.
C18_Witness ==
    /\ call.op = "initialize"
    /\ Access_ids(system.system_meta.archetype_component_access) # {}
    /\ Access_ids(system.system_meta.component_access_set) # {}
    /\ state.archetype_generation > 0
    /\ Access_ids(state.meta.archetype_component_access) # {}

\* C19: check_change_tick never fails the calling system: in every lifecycle
\* state (before initialize included), for every stored last_change_tick and
\* every supplied tick, the call completes normally; a drift beyond the
\* margin produces the warning and the clamp of last_change_tick and nothing
\* else, and without such a drift the call changes nothing.
C19_CheckChangeTickNeverFails ==
    [][ call'.op = "check_change_tick" =>
          /\ call'.outcome = "ok"
          /\ system' = [system EXCEPT !.system_meta.last_change_tick =
                                         system'.system_meta.last_change_tick]
          /\ call'.warn = u32_gt(wrapping_sub(call'.arg, system.system_meta.last_change_tick),
                                 MaxDeltaValue)
          /\ ~call'.warn => system' = system
          /\ UNCHANGED <<world_change_tick, archetypes, state, token>> ]_vars

\* check_change_tick on a system never initialized, with a drift beyond the
\* margin: it warned, clamped and returned.
C19_Witness ==
    /\ ~Initialized(system)
    /\ call.op = "check_change_tick"
    /\ call.outcome = "ok"
    /\ call.warn
    /\ system.system_meta.last_change_tick # U32(0, 0)

\* C20: after check_system_change_tick(last, t) the wrapping distance
\* (t - last) mod 2^32 is at most MAX_DELTA = (u32::MAX / 4) * 3, and the
\* operation is idempotent: a second call with the same t changes nothing
\* and makes no warning.
C20_ClampBoundsDistanceAndIsIdempotent ==
    [][ call'.op = "check_change_tick" =>
          LET t == call'.arg
              after == system'.system_meta.last_change_tick
              again == FunctionSystem_check_change_tick(system', t)
          IN  /\ ~u32_gt(wrapping_sub(t, after), MaxDeltaValue)
              /\ again.system = system'
              /\ ~again.warn
              /\ (call.op = "check_change_tick" /\ call.arg = t) =>
                    (system' = system /\ ~call'.warn) ]_vars

\* A second check_change_tick with the tick 0 after the first one clamped:
\* the stored tick is 0 - MAX_DELTA, which only the clamp produces, the
\* distance is exactly MAX_DELTA and the second call made no warning.
C20_Witness ==
    /\ call.op = "check_change_tick"
    /\ call.arg = U32(0, 0)
    /\ ~call.warn
    /\ wrapping_sub(call.arg, system.system_meta.last_change_tick) = MaxDeltaValue

\* What the scheduler reads of a meta to plan concurrency.
Planning(meta) ==
    << meta.name, meta.component_access_set, meta.archetype_component_access, is_send(meta) >>

\* The operations that run a system or maintain it between runs.
Running == {"run_unchecked", "run", "apply_buffers", "check_change_tick",
            "get_unchecked_manual", "apply"}

\* C23: run_unchecked, run, apply_buffers and check_change_tick (and
\* get_unchecked_manual and apply on a SystemState) leave the system's name,
\* component access, archetype-component access and send flag unchanged,
\* whether they return or panic; run changes last_change_tick and the
\* callable's own record only, apply_buffers changes nothing, and
\* check_change_tick changes last_change_tick only.
C23_RunningLeavesPlanningData ==
    [][ call'.op \in Running =>
          /\ Planning(system'.system_meta) = Planning(system.system_meta)
          /\ Planning(state'.meta) = Planning(state.meta)
          /\ system'.param_state = system.param_state
          /\ system'.marker = system.marker
          /\ state' = [state EXCEPT !.meta.last_change_tick = state'.meta.last_change_tick]
          /\ call'.op \in {"apply_buffers", "apply"} => (system' = system /\ state' = state)
          /\ call'.op = "check_change_tick" =>
                /\ system'.func = system.func
                /\ UNCHANGED <<world_change_tick, archetypes>>
          /\ call'.op \in Runs =>
                system' = [system EXCEPT !.func = system'.func,
                                         !.system_meta.last_change_tick =
                                            system'.system_meta.last_change_tick] ]_vars

\* A non-send system with recorded component and archetype access has run
\* and stored a tick; the planning data is still there.
C23_Witness ==
    /\ call.op = "run" /\ call.outcome = "ok"
    /\ ~FunctionSystem_is_send(system)
    /\ Access_ids(FunctionSystem_component_access(system)) # {}
    /\ Access_ids(FunctionSystem_archetype_component_access(system)) # {}
    /\ system.system_meta.last_change_tick # U32(0, 0)

\* C24: the direct notification SystemState::new_archetype(archetype), which
\* ParamSystem::new_archetype calls, presents exactly that one archetype to
\* the parameter state and leaves the observed archetype generation, the
\* world identity and last_change_tick unchanged; the range of a later
\* refresh therefore still starts at the generation observed before the
\* notification and runs up to the world's generation.
C24_DirectNotificationKeepsWatermark ==
    [][ /\ call'.op = "state_new_archetype" =>
             /\ Len(call'.arg) = 1
             /\ state'.param_state.archetypes
                  = Append(state.param_state.archetypes, call'.arg[1])
             /\ state'.archetype_generation = state.archetype_generation
             /\ state'.world_id = state.world_id
             /\ state'.meta.last_change_tick = state.meta.last_change_tick
             /\ UNCHANGED <<world_change_tick, archetypes>>
        /\ (call'.op = "get" /\ call'.outcome = "ok") =>
             LET from == state.archetype_generation
                 to == archetypes[Home]
                 ev == call'.events
             IN  /\ Len(ev) = (to - from) + 3
                 /\ \A i \in 1..(to - from) : ev[i] = <<"new_archetype", <<from + i - 1>> >>
                 /\ state'.archetype_generation = to ]_vars

\* Archetype 0 was presented directly and then once more by the refresh that
\* followed, whose range started at generation 0.
C24_Witness ==
    /\ call.op = "get" /\ call.outcome = "ok"
    /\ used.notify = 1
    /\ Len(state.param_state.archetypes) >= 2
    /\ state.param_state.archetypes[1] = 0
    /\ state.param_state.archetypes[2] = 0
    /\ call.events[1] = <<"new_archetype", <<0>> >>

\* The ticks captured so far by the invocations of one system, in order.
CapturedBy(who) ==
    LET idx == { i \in 1..Len(history.captured) : history.captured[i][1] = who }
    IN  [ n \in 1..Cardinality(idx) |->
            history.captured[CHOOSE i \in idx : Cardinality({ j \in idx : j <= i }) = n][2] ]

\* The stored tick of a system with no invocation in flight is the tick its
\* own most recent invocation captured.
StoresOwnTick(who, last_change_tick) ==
    (history.inflight[who] = <<>> /\ Len(CapturedBy(who)) > 0) =>
        last_change_tick = CapturedBy(who)[Len(CapturedBy(who))]

\* C22: when initialized systems are run concurrently through run_unchecked
\* on the same world, in any interleaving, each invocation increments the
\* world's change tick exactly once (the tick advances by one in the step
\* that begins an invocation and in no other step, so after k invocations it
\* has advanced by k modulo 2^32), no two invocations capture the same tick,
\* and the last_change_tick of a system whose invocation has completed is the
\* tick captured by its own most recent invocation.
C22_ConcurrentRunsCaptureDistinctTicks ==
    /\ [](/\ \A i, j \in 1..Len(history.captured) :
                i # j => history.captured[i][2] # history.captured[j][2]
          /\ StoresOwnTick("system", system.system_meta.last_change_tick)
          /\ StoresOwnTick("state", state.meta.last_change_tick)
          /\ Len(history.captured) = used.incs)
    /\ [][ /\ Len(history'.captured) - Len(history.captured) \in {0, 1}
           /\ world_change_tick'[Home]
                = wrapping_add(world_change_tick[Home],
                               U32(0, Len(history'.captured) - Len(history.captured)))
           /\ call'.op \in {"run_unchecked", "get_unchecked_manual"} =>
                /\ call'.outcome = "ok"
                /\ Len(history'.captured) = Len(history.captured) ]_vars

\* The FunctionSystem began its invocation first and completed it last, the
\* ParamSystem having begun and completed its own in between; across the
\* wrap of the counter.
C22_Witness ==
    /\ Len(history.captured) = 2
    /\ history.captured[1][1] = "system"
    /\ history.captured[2][1] = "state"
    /\ history.inflight["system"] = <<>>
    /\ history.inflight["state"] = <<>>
    /\ call.op = "run_unchecked"
    /\ world_change_tick[Home] = U32(0, 1)
    /\ system.system_meta.last_change_tick # state.meta.last_change_tick

\* C21: when check_change_tick is applied to a system with the world's
\* current tick at least once in every window of 2^32 - 1 - MAX_DELTA
\* increments of the world's change tick, then in every reachable state the
\* wrapping distance from the system's last_change_tick to the world's change
\* tick is at most the true number of increments since the system last ran
\* (since tick 0 for a system that has not run, since the tick it captured
\* otherwise), and at least the minimum of that number and MAX_DELTA.
C21_DistanceNeverWraps ==
    LET distance == wrapping_sub(world_change_tick[Home], system.system_meta.last_change_tick)
    IN  /\ wide_le(distance, history.age)
        /\ wide_le(wide_min(history.age, MaxDeltaValue), distance)

\* A system idle for more than 2^32 increments: its distance is u32::MAX, the
\* largest that does not wrap.
C21_Witness ==
    /\ wide_le(<<Half, 0>>, history.age)
    /\ wrapping_sub(world_change_tick[Home], system.system_meta.last_change_tick) = U32_MAX
    /\ history.unchecked = Window

====
